---------------------------- MODULE Spec2Model ----------------------------
(***************************************************************************)
(* State-machine model of the ERP shell in src/App.tsx: the role-based     *)
(* module gate, the transaction commit handler and the derived analytics.  *)
(* Money and weights are integers (smallest currency unit, whole pounds).  *)
(***************************************************************************)
EXTENDS Integers, Sequences, FiniteSets, TLC

(***************************************************************************)
(* Bounds of the model.                                                    *)
(***************************************************************************)
MaxTx == 2        \* commits recorded in one run
MaxStock == 2     \* largest on-hand quantity an inventory edit introduces
MaxNow == 52      \* latest instant at which the alerts and the analytics are derived

\* Time is counted in half days from an arbitrary local midnight.
DayUnits == 2     \* length of one day
AlertWindowDays == 20

(***************************************************************************)
(* Fixed enumerations of the source.                                       *)
(***************************************************************************)
Admin == "Owner/Admin"
Worker == "Sales Representative"
Accountant == "Accountant/Bookkeeper"
Viewer == "Viewer Only"

UserRole == {Admin, Worker, Accountant, Viewer}

ModuleIds ==
  {"dashboard", "pos", "reports", "crm", "sales", "inventory", "finance", "settings"}

\* module ids a caller of handleModuleChange can pass: any string
ModuleInputs == ModuleIds \cup {"backup"}

userRoles ==
  [r \in UserRole |->
     CASE r = Admin -> {"dashboard", "pos", "reports", "crm", "sales",
                        "inventory", "finance", "settings"}
       [] r = Worker -> {"dashboard", "pos", "inventory", "crm"}
       [] r = Accountant -> {"dashboard", "reports", "finance"}
       [] r = Viewer -> {"dashboard", "reports"}]

adminMenuItems ==
  <<"dashboard", "pos", "inventory", "crm", "sales", "reports", "finance", "settings">>

workerMenuItems == <<"dashboard", "pos", "inventory", "crm">>

SarahUser == [name |-> "Sarah Gonzalez", role |-> Admin]
MiguelUser == [name |-> "Miguel Torres", role |-> Worker]

MainBranch == "Tienda Principal"
NorthBranch == "Sucursal Norte"
BranchNameSet == {MainBranch, NorthBranch}

NoAlert == ""
NoCustomer == ""

VARIABLES
  currentUser,        \* [name, role]
  currentBranch,      \* name of the branch selected in the header
  activeModule,       \* id of the mounted module
  isMobileMenuOpen,
  systemSettings,     \* [companyName]
  branches,           \* sequence of [id, name, active]
  inventory,          \* sequence of inventory items
  allTransactions,    \* sequence of transactions, newest first
  customers,          \* sequence of customers
  alertMsg,           \* role named by the alert() of the last handler, or NoAlert
  request,            \* module id handed to handleModuleChange by GateSpec
  electronAPI,        \* window.electronAPI: NoAPI, or [isElectron]
  bridgeCalls,        \* calls received by window.electronAPI, oldest first
  webActions,         \* browser fallbacks carried out, oldest first
  hookCall,           \* the last call of a function of useElectron
  hookResult,         \* what that call returned
  hookCalls           \* number of calls of functions of useElectron

vars == <<currentUser, currentBranch, activeModule, isMobileMenuOpen,
          systemSettings, branches, inventory, allTransactions, customers,
          alertMsg, request, electronAPI, bridgeCalls, webActions, hookCall,
          hookResult, hookCalls>>

hookVars == <<electronAPI, bridgeCalls, webActions, hookCall, hookResult,
              hookCalls>>

navVars == <<currentUser, activeModule, isMobileMenuOpen>>
dataVars == <<currentBranch, systemSettings, branches, inventory,
              allTransactions, customers>>

(***************************************************************************)
(* Small arithmetic and sequence helpers.                                  *)
(***************************************************************************)
Max(a, b) == IF a >= b THEN a ELSE b

RECURSIVE SeqSum(_)
SeqSum(s) == IF s = <<>> THEN 0 ELSE Head(s) + SeqSum(Tail(s))

Range(s) == {s[i] : i \in 1..Len(s)}

\* Array.prototype.find with an id test: index of the first element whose
\* id is the given one, 0 when there is none
FindIndex(s, id) ==
  IF \E i \in 1..Len(s) : s[i].id = id
  THEN CHOOSE i \in 1..Len(s) :
         s[i].id = id /\ \A j \in 1..(i - 1) : s[j].id # id
  ELSE 0

(***************************************************************************)
(* Derived role capabilities.                                              *)
(***************************************************************************)
isAdminRole(r) == r = Admin
isWorkerRole(r) == r = Worker
\* faulty variant: every role but the viewer sees the financial data
canViewFinancialsRole_AllStaff(r) == r # Viewer

canViewFinancialsRole(r) == isAdminRole(r) \/ r = Accountant

isAdmin == isAdminRole(currentUser.role)
isWorker == isWorkerRole(currentUser.role)
canEditInventory == isAdmin
canEditPrices == isAdmin
canViewFinancials == canViewFinancialsRole(currentUser.role)

allowedModules == userRoles[currentUser.role]

menuItems == IF isWorker THEN workerMenuItems ELSE adminMenuItems

\* faulty variant: the menu renders every item of the list, allowed or not
NavEntries_Unfiltered == Range(menuItems)

\* ids of the navigation buttons the sidebar and the mobile menu render
NavEntries == {id \in Range(menuItems) : id \in allowedModules}

activeBranches == SelectSeq(branches, LAMBDA b : b.active)
branchNames == [i \in 1..Len(activeBranches) |-> activeBranches[i].name]

(***************************************************************************)
(* Records of the data model.                                              *)
(***************************************************************************)
CustomerIds == {"c1", "c2"}

\* item.stock[branch] || 0
StockAt(item, branch) ==
  IF branch \in DOMAIN item.stock THEN item.stock[branch] ELSE 0

\* { ...record, [key]: value }
Put(f, key, value) ==
  [x \in (DOMAIN f) \cup {key} |-> IF x = key THEN value ELSE f[x]]

\* expirationDates maps a branch to the expiration instants of its batches;
\* an item without the optional field has the empty map
InventoryItem(id, weight, costPrice, lowStockThreshold, stock, expirationDates) ==
  [id |-> id, weight |-> weight, costPrice |-> costPrice,
   lowStockThreshold |-> lowStockThreshold,
   stock |-> stock,
   stockWeight |-> [b \in DOMAIN stock |-> stock[b] * weight],
   expirationDates |-> expirationDates,
   updatedAt |-> "edited"]

CartItem(id, quantity) == [id |-> id, quantity |-> quantity]

Transaction(branch, customerId, items, total, timestamp) ==
  [branch |-> branch, customerId |-> customerId, items |-> items,
   total |-> total, timestamp |-> timestamp]

Customer(id) ==
  [id |-> id, notes |-> "", totalOrders |-> 0, totalSpent |-> 0,
   loyaltyPoints |-> 0, lastPurchase |-> "", lastContact |-> ""]

Branch(id, name, active) == [id |-> id, name |-> name, active |-> active]

(***************************************************************************)
(* Inputs the collaborating modules hand to the shell's handlers.          *)
(***************************************************************************)
\* inventories the inventory module saves: item ids are unique, quantities
\* are not negative and stockWeight is stock times the unit weight; one
\* item has two batches at the first branch and one at the second, listed
\* by expiration instant
StockedInventory(s) ==
  <<InventoryItem("i1", 2, 3, 1, (MainBranch :> s),
                  (MainBranch :> <<>>)),
    InventoryItem("i2", 5, 4, 0, (MainBranch :> s) @@ (NorthBranch :> s),
                  (MainBranch :> <<50, 21>>) @@ (NorthBranch :> <<4>>))>>

InventoryInputs == {<<>>} \cup {StockedInventory(s) : s \in 1..MaxStock}

\* sales the point of sale completes: a plain sale to a customer, a sale
\* whose cart lists one item on two lines, and a sale at the second branch
\* with an unknown item, more units than any branch holds, and an item
\* that has no stock entry at that branch
TxInputs ==
  { Transaction(MainBranch, "c1", <<CartItem("i1", 1)>>, 250, 1),
    Transaction(MainBranch, NoCustomer,
                <<CartItem("i1", 1), CartItem("i1", 1)>>, 100, 4),
    Transaction(NorthBranch, "c1",
                <<CartItem("i9", 1), CartItem("i2", MaxStock + 1),
                  CartItem("i1", 1)>>, 99, 5) }

\* customer lists the CRM module saves: a new customer starts with zeroed
\* history, an edit of a profile keeps the history fields
CustomerInputs(cs) ==
  (IF Len(cs) < Cardinality(CustomerIds)
   THEN {Append(cs, Customer(IF Len(cs) = 0 THEN "c1" ELSE "c2"))}
   ELSE {})
  \cup
  (IF Len(cs) > 0 THEN {[cs EXCEPT ![1].notes = "edited"]} ELSE {})

BranchInputs ==
  { <<Branch("branch1", MainBranch, TRUE)>>,
    <<Branch("branch1", MainBranch, TRUE), Branch("branch2", NorthBranch, TRUE)>>,
    <<Branch("branch1", MainBranch, FALSE), Branch("branch2", NorthBranch, TRUE)>>,
    <<Branch("branch1", MainBranch, FALSE)>> }

SettingsInputs ==
  { [companyName |-> "MascotaCare ERP Nicaragua"],
    [companyName |-> "AgroVet"] }

(***************************************************************************)
(* Initial state: the useState initialisers.                               *)
(***************************************************************************)
\* most calls of functions of useElectron in a behaviour
MaxCalls == 2

\* window.electronAPI is not defined
NoAPI == [exposed |-> FALSE]
NoCall == [fn |-> "none", args |-> <<>>]
NoResult == [returned |-> FALSE]

\* the hook before any call, in a browser
HookInit ==
  /\ electronAPI = NoAPI
  /\ bridgeCalls = <<>>
  /\ webActions = <<>>
  /\ hookCall = NoCall
  /\ hookResult = NoResult
  /\ hookCalls = 0

Init ==
  /\ currentUser = SarahUser
  /\ currentBranch = MainBranch
  /\ activeModule = "dashboard"
  /\ isMobileMenuOpen = FALSE
  /\ systemSettings = [companyName |-> "MascotaCare ERP Nicaragua"]
  /\ branches = <<Branch("branch1", MainBranch, TRUE)>>
  /\ inventory = <<>>
  /\ allTransactions = <<>>
  /\ customers = <<>>
  /\ alertMsg = NoAlert
  /\ request = ""
  /\ HookInit

(***************************************************************************)
(* Navigation handlers.                                                    *)
(***************************************************************************)
\* faulty variant: the handler switches without consulting the role's modules
handleModuleChange_NoGate(moduleId) ==
  /\ activeModule' = moduleId
  /\ isMobileMenuOpen' = FALSE
  /\ alertMsg' = NoAlert
  /\ UNCHANGED <<currentUser, dataVars>>

handleModuleChange(moduleId) ==
  /\ IF moduleId \in allowedModules
     THEN /\ activeModule' = moduleId
          /\ isMobileMenuOpen' = FALSE
          /\ alertMsg' = NoAlert
     ELSE /\ alertMsg' = currentUser.role
          /\ UNCHANGED <<activeModule, isMobileMenuOpen>>
  /\ UNCHANGED <<currentUser, dataVars>>

\* faulty variant: the switch leaves the mounted module where it was
switchRole_KeepsModule ==
  /\ currentUser' = IF currentUser.role = Admin THEN MiguelUser ELSE SarahUser
  /\ UNCHANGED activeModule

switchRole ==
  /\ currentUser' = IF currentUser.role = Admin THEN MiguelUser ELSE SarahUser
  /\ activeModule' = "dashboard"

\* renderDashboard: the empty-state dashboard is shown until there is data
EmptyDashboard ==
  Len(allTransactions) = 0 /\ Len(inventory) = 0 /\ Len(customers) = 0

EmptyStateShortcuts == {"inventory", "crm", "pos", "settings"}
PopulatedShortcuts == {"finance", "sales", "inventory", "crm"}

DashboardShortcuts ==
  IF EmptyDashboard THEN EmptyStateShortcuts ELSE PopulatedShortcuts

\* a setup-guide button or a metric card of the dashboard
DashboardShortcutClick(m) ==
  /\ activeModule = "dashboard"
  /\ m \in DashboardShortcuts
  /\ activeModule' = m
  /\ UNCHANGED <<currentUser, isMobileMenuOpen, dataVars, alertMsg, request, hookVars>>

\* the company logo of the header
HeaderClick ==
  /\ activeModule' = "dashboard"
  /\ UNCHANGED <<currentUser, isMobileMenuOpen, dataVars, alertMsg, request, hookVars>>

SidebarClick(m) ==
  /\ m \in NavEntries
  /\ activeModule' = m
  /\ UNCHANGED <<currentUser, isMobileMenuOpen, dataVars, alertMsg, request, hookVars>>

MobileMenuClick(m) ==
  /\ isMobileMenuOpen
  /\ m \in NavEntries
  /\ handleModuleChange(m)
  /\ UNCHANGED <<request, hookVars>>

ToggleMobileMenu ==
  /\ isMobileMenuOpen' = ~isMobileMenuOpen
  /\ UNCHANGED <<currentUser, activeModule, dataVars, alertMsg, request, hookVars>>

SwitchRoleClick ==
  /\ switchRole
  /\ UNCHANGED <<isMobileMenuOpen, dataVars, alertMsg, request, hookVars>>

MobileSwitchRoleClick ==
  /\ isMobileMenuOpen
  /\ switchRole
  /\ isMobileMenuOpen' = FALSE
  /\ UNCHANGED <<dataVars, alertMsg, request, hookVars>>

(***************************************************************************)
(* Data handlers.                                                          *)
(***************************************************************************)
\* faulty variant: the deduction is not floored at 0
DeductStock_NoFloor(item, transaction) ==
  LET k == FindIndex(transaction.items, item.id) IN
  IF k # 0
  THEN LET newStock == StockAt(item, transaction.branch)
                         - transaction.items[k].quantity
       IN [item EXCEPT
             !.stock = Put(item.stock, transaction.branch, newStock),
             !.stockWeight = Put(item.stockWeight, transaction.branch,
                                 newStock * item.weight),
             !.updatedAt = "sold"]
  ELSE item

\* faulty variant: the weight is computed from the quantity before the sale
DeductStock_StaleWeight(item, transaction) ==
  LET k == FindIndex(transaction.items, item.id) IN
  IF k # 0
  THEN LET currentStock == StockAt(item, transaction.branch)
           newStock == Max(0, currentStock - transaction.items[k].quantity)
       IN [item EXCEPT
             !.stock = Put(item.stock, transaction.branch, newStock),
             !.stockWeight = Put(item.stockWeight, transaction.branch,
                                 currentStock * item.weight),
             !.updatedAt = "sold"]
  ELSE item

\* faulty variant: the new stock maps hold the branch of the sale only
DeductStock_DropsOtherBranches(item, transaction) ==
  LET k == FindIndex(transaction.items, item.id) IN
  IF k # 0
  THEN LET soldItem == transaction.items[k]
           currentStock == StockAt(item, transaction.branch)
           newStock == Max(0, currentStock - soldItem.quantity)
           newStockWeight == newStock * item.weight
       IN [item EXCEPT
             !.stock = [b \in {transaction.branch} |-> newStock],
             !.stockWeight = [b \in {transaction.branch} |-> newStockWeight],
             !.updatedAt = "sold"]
  ELSE item

\* faulty variant: an item already sold once is not deducted again
DeductStock_FirstSaleOnly(item, transaction) ==
  LET k == FindIndex(transaction.items, item.id) IN
  IF k # 0 /\ item.updatedAt # "sold"
  THEN LET soldItem == transaction.items[k]
           currentStock == StockAt(item, transaction.branch)
           newStock == Max(0, currentStock - soldItem.quantity)
           newStockWeight == newStock * item.weight
       IN [item EXCEPT
             !.stock = Put(item.stock, transaction.branch, newStock),
             !.stockWeight = Put(item.stockWeight, transaction.branch,
                                 newStockWeight),
             !.updatedAt = "sold"]
  ELSE item

\* the body of prevInventory.map(...) for one inventory item
DeductStock(item, transaction) ==
  LET k == FindIndex(transaction.items, item.id) IN
  IF k # 0
  THEN LET soldItem == transaction.items[k]
           currentStock == StockAt(item, transaction.branch)
           newStock == Max(0, currentStock - soldItem.quantity)
           newStockWeight == newStock * item.weight
       IN [item EXCEPT
             !.stock = Put(item.stock, transaction.branch, newStock),
             !.stockWeight = Put(item.stockWeight, transaction.branch,
                                 newStockWeight),
             !.updatedAt = "sold"]
  ELSE item

\* faulty variant: one loyalty point per currency unit instead of one per 100
RecordPurchase_PointPerUnit(customer, transaction) ==
  IF customer.id = transaction.customerId
  THEN [customer EXCEPT
          !.totalOrders = customer.totalOrders + 1,
          !.totalSpent = customer.totalSpent + transaction.total,
          !.lastPurchase = "today",
          !.lastContact = "today",
          !.loyaltyPoints = customer.loyaltyPoints + transaction.total]
  ELSE customer

\* faulty variant: the history fields are overwritten with the figures of the sale
RecordPurchase_Overwrite(customer, transaction) ==
  IF customer.id = transaction.customerId
  THEN [customer EXCEPT
          !.totalOrders = 1,
          !.totalSpent = transaction.total,
          !.lastPurchase = "today",
          !.lastContact = "today",
          !.loyaltyPoints = transaction.total \div 100]
  ELSE customer

\* the body of prevCustomers.map(...) for one customer
RecordPurchase(customer, transaction) ==
  IF customer.id = transaction.customerId
  THEN [customer EXCEPT
          !.totalOrders = customer.totalOrders + 1,
          !.totalSpent = customer.totalSpent + transaction.total,
          !.lastPurchase = "today",
          !.lastContact = "today",
          !.loyaltyPoints = customer.loyaltyPoints + (transaction.total \div 100)]
  ELSE customer

\* faulty variant: the transaction is put at the end of the log
handleNewTransaction_AppendLast(transaction) ==
  /\ allTransactions' = Append(allTransactions, transaction)
  /\ inventory' = [i \in 1..Len(inventory) |->
                     DeductStock(inventory[i], transaction)]
  /\ customers' = IF transaction.customerId # NoCustomer
                  THEN [i \in 1..Len(customers) |->
                          RecordPurchase(customers[i], transaction)]
                  ELSE customers
  /\ UNCHANGED <<navVars, currentBranch, systemSettings, branches, alertMsg>>

\* faulty variant: a cart with an unknown item leaves the inventory and the
\* customers as they were
handleNewTransaction_SkipOnUnmatched(transaction) ==
  LET allKnown == \A k \in 1..Len(transaction.items) :
                    FindIndex(inventory, transaction.items[k].id) # 0
  IN /\ allTransactions' = <<transaction>> \o allTransactions
     /\ inventory' = IF allKnown
                     THEN [i \in 1..Len(inventory) |->
                             DeductStock(inventory[i], transaction)]
                     ELSE inventory
     /\ customers' = IF transaction.customerId # NoCustomer /\ allKnown
                     THEN [i \in 1..Len(customers) |->
                             RecordPurchase(customers[i], transaction)]
                     ELSE customers
     /\ UNCHANGED <<navVars, currentBranch, systemSettings, branches, alertMsg>>

handleNewTransaction(transaction) ==
  /\ allTransactions' = <<transaction>> \o allTransactions
  /\ inventory' = [i \in 1..Len(inventory) |->
                     DeductStock(inventory[i], transaction)]
  /\ customers' = IF transaction.customerId # NoCustomer
                  THEN [i \in 1..Len(customers) |->
                          RecordPurchase(customers[i], transaction)]
                  ELSE customers
  /\ UNCHANGED <<navVars, currentBranch, systemSettings, branches, alertMsg>>

handleInventoryUpdate(updatedInventory) ==
  /\ inventory' = updatedInventory
  /\ UNCHANGED <<navVars, currentBranch, systemSettings, branches,
                 allTransactions, customers, alertMsg>>

handleCustomerUpdate(updatedCustomers) ==
  /\ customers' = updatedCustomers
  /\ UNCHANGED <<navVars, currentBranch, systemSettings, branches,
                 allTransactions, inventory, alertMsg>>

\* faulty variant: the update never touches the selected branch
handleBranchUpdate_KeepsCurrent(updatedBranches) ==
  /\ branches' = updatedBranches
  /\ UNCHANGED currentBranch
  /\ UNCHANGED <<navVars, systemSettings, inventory, allTransactions,
                 customers, alertMsg>>

handleBranchUpdate(updatedBranches) ==
  /\ branches' = updatedBranches
  /\ LET currentBranchExists ==
           \E i \in 1..Len(updatedBranches) :
             updatedBranches[i].name = currentBranch /\ updatedBranches[i].active
         actives == SelectSeq(updatedBranches, LAMBDA b : b.active)
     IN IF ~currentBranchExists /\ Len(actives) > 0
        THEN currentBranch' = actives[1].name
        ELSE UNCHANGED currentBranch
  /\ UNCHANGED <<navVars, systemSettings, inventory, allTransactions,
                 customers, alertMsg>>

handleSystemSettingsUpdate(updatedSettings) ==
  /\ systemSettings' = updatedSettings
  /\ UNCHANGED <<navVars, currentBranch, branches, inventory,
                 allTransactions, customers, alertMsg>>

\* the branch <select> of the header and of the mobile menu
SelectBranch(b) ==
  /\ b \in Range(branchNames)
  /\ currentBranch' = b
  /\ UNCHANGED <<navVars, systemSettings, branches, inventory,
                 allTransactions, customers, alertMsg, request, hookVars>>

(***************************************************************************)
(* The handlers as the mounted module reaches them (renderContent).        *)
(***************************************************************************)
POSCommit(transaction) ==
  /\ activeModule = "pos"
  /\ Len(allTransactions) < MaxTx
  /\ handleNewTransaction(transaction)
  /\ UNCHANGED <<request, hookVars>>

InventoryEdit(updatedInventory) ==
  /\ activeModule = "inventory"
  /\ handleInventoryUpdate(updatedInventory)
  /\ UNCHANGED <<request, hookVars>>

CustomerEdit(updatedCustomers) ==
  /\ activeModule = "crm"
  /\ handleCustomerUpdate(updatedCustomers)
  /\ UNCHANGED <<request, hookVars>>

BranchEdit(updatedBranches) ==
  /\ activeModule \in {"inventory", "settings"}
  /\ handleBranchUpdate(updatedBranches)
  /\ UNCHANGED <<request, hookVars>>

SettingsEdit(updatedSettings) ==
  /\ activeModule = "settings"
  /\ handleSystemSettingsUpdate(updatedSettings)
  /\ UNCHANGED <<request, hookVars>>

(***************************************************************************)
(* Analytics: salesMetrics.                                                *)
(***************************************************************************)
\* faulty variant: the cost of a line is the cost of one unit
CostOfLine_OneUnit(inv, line) ==
  LET k == FindIndex(inv, line.id)
  IN IF k # 0 THEN inv[k].costPrice ELSE 0

CostOfLine(inv, line) ==
  LET k == FindIndex(inv, line.id)
      costPrice == IF k # 0 THEN inv[k].costPrice ELSE 0
  IN costPrice * line.quantity

CostOfTransaction(inv, t) ==
  SeqSum([j \in 1..Len(t.items) |-> CostOfLine(inv, t.items[j])])

\* faulty variant: the stock of every branch is counted, active or not
TotalStock_AllBranches(item, names) ==
  LET all == DOMAIN item.stock
      RECURSIVE Sum(_)
      Sum(S) == IF S = {} THEN 0
                ELSE LET b == CHOOSE b \in S : TRUE
                     IN item.stock[b] + Sum(S \ {b})
  IN Sum(all)

TotalStock(item, names) ==
  SeqSum([j \in 1..Len(names) |-> StockAt(item, names[j])])

\* averageOrder is a quotient of two numbers: kept as numerator/denominator
Quotient(n, d) == [num |-> n, den |-> d]

TotalRevenue(transactions) ==
  SeqSum([i \in 1..Len(transactions) |-> transactions[i].total])

TotalCOGS(transactions, inv) ==
  SeqSum([i \in 1..Len(transactions) |-> CostOfTransaction(inv, transactions[i])])

InventoryValue(inv, names) ==
  SeqSum([i \in 1..Len(inv) |-> TotalStock(inv[i], names) * inv[i].costPrice])

TotalInventoryWeight(inv, names) ==
  SeqSum([i \in 1..Len(inv) |-> TotalStock(inv[i], names) * inv[i].weight])

\* faulty variant: the cost figures are computed whatever the role
computeMetrics_CostsUngated(transactions, inv, names, admin) ==
  LET totalRevenue == TotalRevenue(transactions)
      totalOrders == Len(transactions)
      totalCOGS == TotalCOGS(transactions, inv)
  IN [totalRevenue |-> totalRevenue,
      totalOrders |-> totalOrders,
      averageOrder |-> IF totalOrders > 0
                       THEN Quotient(totalRevenue, totalOrders)
                       ELSE Quotient(0, 1),
      grossProfit |-> totalRevenue - totalCOGS,
      inventoryValue |-> IF admin THEN InventoryValue(inv, names) ELSE 0,
      totalInventoryWeight |-> TotalInventoryWeight(inv, names),
      totalCOGS |-> totalCOGS]

\* faulty variant: the average divides by the number of orders before the newest one
computeMetrics_AverageOffByOne(transactions, inv, names, admin) ==
  LET totalRevenue == TotalRevenue(transactions)
      totalOrders == Len(transactions)
      totalCOGS == IF admin THEN TotalCOGS(transactions, inv) ELSE 0
  IN [totalRevenue |-> totalRevenue,
      totalOrders |-> totalOrders,
      averageOrder |-> IF totalOrders > 1
                       THEN Quotient(totalRevenue, totalOrders - 1)
                       ELSE Quotient(0, 1),
      grossProfit |-> IF admin THEN totalRevenue - totalCOGS ELSE 0,
      inventoryValue |-> IF admin THEN InventoryValue(inv, names) ELSE 0,
      totalInventoryWeight |-> TotalInventoryWeight(inv, names),
      totalCOGS |-> totalCOGS]

computeMetrics(transactions, inv, names, admin) ==
  LET totalRevenue == TotalRevenue(transactions)
      totalOrders == Len(transactions)
      averageOrder == IF totalOrders > 0
                      THEN Quotient(totalRevenue, totalOrders)
                      ELSE Quotient(0, 1)
      totalCOGS == IF admin THEN TotalCOGS(transactions, inv) ELSE 0
      grossProfit == IF admin THEN totalRevenue - totalCOGS ELSE 0
      inventoryValue == IF admin THEN InventoryValue(inv, names) ELSE 0
      totalInventoryWeight == TotalInventoryWeight(inv, names)
  IN [totalRevenue |-> totalRevenue,
      totalOrders |-> totalOrders,
      averageOrder |-> averageOrder,
      grossProfit |-> grossProfit,
      inventoryValue |-> inventoryValue,
      totalInventoryWeight |-> totalInventoryWeight,
      totalCOGS |-> totalCOGS]

salesMetrics == computeMetrics(allTransactions, inventory, branchNames, isAdmin)

(***************************************************************************)
(* The shell.                                                              *)
(***************************************************************************)
Next ==
  \/ \E m \in ModuleIds : DashboardShortcutClick(m)
  \/ HeaderClick
  \/ \E m \in ModuleIds : SidebarClick(m)
  \/ \E m \in ModuleIds : MobileMenuClick(m)
  \/ ToggleMobileMenu
  \/ SwitchRoleClick
  \/ MobileSwitchRoleClick
  \/ \E t \in TxInputs : POSCommit(t)
  \/ \E inv \in InventoryInputs : InventoryEdit(inv)
  \/ \E cs \in CustomerInputs(customers) : CustomerEdit(cs)
  \/ \E bs \in BranchInputs : BranchEdit(bs)
  \/ \E st \in SettingsInputs : SettingsEdit(st)
  \/ \E b \in BranchNameSet : SelectBranch(b)

Spec == Init /\ [][Next]_vars

(***************************************************************************)
(* The data handlers on their own: every handler that writes the branches, *)
(* the inventory, the log, the customers or the settings, called in any    *)
(* order whatever module is mounted, and the role switch the metrics read. *)
(* The handlers do not read the navigation state, so every run of the      *)
(* shell projects onto a run of this specification.                        *)
(***************************************************************************)
Commit(transaction) ==
  /\ Len(allTransactions) < MaxTx
  /\ handleNewTransaction(transaction)
  /\ UNCHANGED <<request, hookVars>>

InventoryUpdate(updatedInventory) ==
  /\ handleInventoryUpdate(updatedInventory)
  /\ UNCHANGED <<request, hookVars>>

CustomerUpdate(updatedCustomers) ==
  /\ handleCustomerUpdate(updatedCustomers)
  /\ UNCHANGED <<request, hookVars>>

BranchUpdate(updatedBranches) ==
  /\ handleBranchUpdate(updatedBranches)
  /\ UNCHANGED <<request, hookVars>>

SettingsUpdate(updatedSettings) ==
  /\ handleSystemSettingsUpdate(updatedSettings)
  /\ UNCHANGED <<request, hookVars>>

DataNext ==
  \/ \E t \in TxInputs : Commit(t)
  \/ \E inv \in InventoryInputs : InventoryUpdate(inv)
  \/ \E cs \in CustomerInputs(customers) : CustomerUpdate(cs)
  \/ \E bs \in BranchInputs : BranchUpdate(bs)
  \/ \E st \in SettingsInputs : SettingsUpdate(st)
  \/ \E b \in BranchNameSet : SelectBranch(b)
  \/ SwitchRoleClick

DataSpec == Init /\ [][DataNext]_vars

(***************************************************************************)
(* The module gate on its own: handleModuleChange called with any module   *)
(* id, under any role of the UserRole enumeration and any mounted module.  *)
(***************************************************************************)
UserOf(r) ==
  CASE r = Admin -> SarahUser
    [] r = Worker -> MiguelUser
    [] OTHER -> [name |-> "Usuario", role |-> r]

GateInit ==
  /\ currentUser \in {UserOf(r) : r \in UserRole}
  /\ activeModule \in ModuleIds
  /\ isMobileMenuOpen \in BOOLEAN
  /\ currentBranch = MainBranch
  /\ systemSettings = [companyName |-> "MascotaCare ERP Nicaragua"]
  /\ branches = <<Branch("branch1", MainBranch, TRUE)>>
  /\ inventory = <<>>
  /\ allTransactions = <<>>
  /\ customers = <<>>
  /\ alertMsg = NoAlert
  /\ request = ""
  /\ HookInit

GateRequest(m) ==
  /\ request' = m
  /\ handleModuleChange(m)
  /\ UNCHANGED hookVars

GateNext == \E m \in ModuleInputs : GateRequest(m)

GateSpec == GateInit /\ [][GateNext]_vars

(***************************************************************************)
(* Properties.                                                             *)
(***************************************************************************)

\* C1: in every reachable state of the shell the active module id is a
\* member of the allowed-module set of the current role.
ActiveModuleAllowed == activeModule \in allowedModules

\* C2: for every role and module id m, handleModuleChange(m) switches to m
\* exactly when m is among the role's allowed modules; otherwise the request
\* is denied (the denial alert names the role) and the active module keeps
\* its value.
GateDecides ==
  [][LET m == request'
         granted == alertMsg' = NoAlert
     IN /\ granted <=> m \in userRoles[currentUser.role]
        /\ granted => activeModule' = m
        /\ ~granted => /\ alertMsg' = currentUser.role
                       /\ activeModule' = activeModule
        /\ currentUser' = currentUser]_vars

\* a request was denied and the mounted module is still the earlier one
GateDeniedWitness ==
  /\ request \in ModuleIds
  /\ request \notin userRoles[currentUser.role]
  /\ alertMsg = currentUser.role
  /\ activeModule # request

\* inventory with every cost price replaced by c
Recost(inv, c) == [i \in 1..Len(inv) |-> [inv[i] EXCEPT !.costPrice = c]]

CostPrices == 0..5

\* C3: under every role other than Owner/Admin the metrics have
\* totalCOGS = 0 and grossProfit = 0, whatever the log and the inventory,
\* hence the same values for inventories that differ only in cost prices.
NonAdminSeesNoCosts ==
  /\ ~isAdmin => salesMetrics.totalCOGS = 0 /\ salesMetrics.grossProfit = 0
  /\ \A r \in UserRole \ {Admin}, c \in CostPrices :
       LET other == computeMetrics(allTransactions, Recost(inventory, c),
                                   branchNames, isAdminRole(r))
       IN other.totalCOGS = 0 /\ other.grossProfit = 0

\* a non-admin looks at a log whose sales have a cost an admin would see
NonAdminWitness ==
  /\ ~isAdmin
  /\ Len(allTransactions) > 0
  /\ TotalCOGS(allTransactions, inventory) > 0
  /\ TotalRevenue(allTransactions) # TotalCOGS(allTransactions, inventory)

\* a step that commits a transaction: the log grows by one entry
IsCommitStep == Len(allTransactions') = Len(allTransactions) + 1
Committed == Head(allTransactions')

\* on-hand quantity left after every line of the cart that names the item
\* has been deducted in turn, each deduction floored at 0
RECURSIVE AfterLines(_, _, _)
AfterLines(stock, lines, id) ==
  IF lines = <<>> THEN stock
  ELSE AfterLines(IF Head(lines).id = id
                  THEN Max(0, stock - Head(lines).quantity)
                  ELSE stock,
                  Tail(lines), id)

\* C4: a commit at branch B leaves, for every inventory item named by a
\* line item, the on-hand quantity at B reduced by the sold quantity of
\* every such line (floored at 0) and stockWeight at B equal to the new
\* quantity times the unit weight, also when several lines name the item.
CommitDeductsEveryLine ==
  [][IsCommitStep =>
       \A i \in 1..Len(inventory) :
         FindIndex(Committed.items, inventory[i].id) # 0 =>
           LET B == Committed.branch
               expected == AfterLines(StockAt(inventory[i], B),
                                      Committed.items, inventory[i].id)
           IN /\ Len(inventory') = Len(inventory)
              /\ B \in DOMAIN inventory'[i].stock
              /\ inventory'[i].stock[B] = expected
              /\ B \in DOMAIN inventory'[i].stockWeight
              /\ inventory'[i].stockWeight[B] = expected * inventory[i].weight]_vars

\* C5: every on-hand quantity of every item at every branch is >= 0.
StockNeverNegative ==
  \A i \in 1..Len(inventory) :
    \A b \in DOMAIN inventory[i].stock : inventory[i].stock[b] >= 0

\* the newest sale asked for more units than the branch held
OversoldWitness ==
  /\ Len(allTransactions) > 0
  /\ \E i \in 1..Len(inventory) :
       LET t == allTransactions[1]
           k == FindIndex(t.items, inventory[i].id)
       IN /\ k # 0
          /\ t.items[k].quantity > MaxStock
          /\ inventory[i].updatedAt = "sold"
          /\ StockAt(inventory[i], t.branch) = 0

\* C6: for every item and branch, stockWeight[branch] is stock[branch]
\* times the item's unit weight.
StockWeightConsistent ==
  \A i \in 1..Len(inventory) :
    /\ DOMAIN inventory[i].stockWeight = DOMAIN inventory[i].stock
    /\ \A b \in DOMAIN inventory[i].stock :
         inventory[i].stockWeight[b] = inventory[i].stock[b] * inventory[i].weight

\* a sale left part of the stock of an item on hand
PartlySoldWitness ==
  \E i \in 1..Len(inventory) :
    /\ inventory[i].updatedAt = "sold"
    /\ \E b \in DOMAIN inventory[i].stock :
         /\ inventory[i].stock[b] > 0
         /\ inventory[i].stock[b] < MaxStock
         /\ Len(allTransactions) > 0
         /\ allTransactions[1].branch = b

\* C7: the log changes only by a commit putting one transaction at its
\* head; the entries already logged stay, unmodified and in order.
LogAppendOnly ==
  [][allTransactions' # allTransactions =>
       /\ Len(allTransactions') = Len(allTransactions) + 1
       /\ Tail(allTransactions') = allTransactions]_vars

\* two different sales are logged, the later one first
LogWitness ==
  /\ Len(allTransactions) = 2
  /\ allTransactions[1] # allTransactions[2]
  /\ Len(inventory) > 0

\* C8: a commit whose customerId matches a customer adds 1 to the
\* customer's totalOrders, the transaction total to totalSpent and
\* floor(total / 100) to loyaltyPoints; every other customer is unchanged.
CommitCreditsCustomer ==
  [][IsCommitStep =>
       /\ Len(customers') = Len(customers)
       /\ \A i \in 1..Len(customers) :
            IF customers[i].id = Committed.customerId
            THEN LET gained == customers'[i].loyaltyPoints
                                 - customers[i].loyaltyPoints
                 IN /\ customers'[i].totalOrders = customers[i].totalOrders + 1
                    /\ customers'[i].totalSpent =
                         customers[i].totalSpent + Committed.total
                    /\ 100 * gained <= Committed.total
                    /\ Committed.total < 100 * (gained + 1)
            ELSE customers'[i] = customers[i]]_vars

\* a customer was credited for the newest sale, another one was not
CreditedWitness ==
  /\ Len(allTransactions) > 0
  /\ Len(customers) = 2
  /\ \E i, j \in 1..Len(customers) :
       /\ customers[i].id = allTransactions[1].customerId
       /\ customers[i].totalOrders >= 1
       /\ customers[i].loyaltyPoints = 2
       /\ customers[j].totalOrders = 0

\* C9: a customer's totalOrders, totalSpent and loyaltyPoints never
\* decrease, and they change only in a transaction commit.
HistoryOf(c) == <<c.totalOrders, c.totalSpent, c.loyaltyPoints>>

CustomerHistoryMonotone ==
  [][\A i \in 1..Len(customers), j \in 1..Len(customers') :
       customers[i].id = customers'[j].id =>
         /\ customers'[j].totalOrders >= customers[i].totalOrders
         /\ customers'[j].totalSpent >= customers[i].totalSpent
         /\ customers'[j].loyaltyPoints >= customers[i].loyaltyPoints
         /\ HistoryOf(customers'[j]) # HistoryOf(customers[i]) => IsCommitStep]_vars

\* a customer with recorded purchases went through a CRM edit
EditedCustomerWitness ==
  \E i \in 1..Len(customers) :
    /\ customers[i].notes = "edited"
    /\ customers[i].totalOrders = 2
    /\ customers[i].loyaltyPoints > 0
    /\ Len(customers) = 2

\* the totals of the logged transactions, added up entry by entry from the
\* oldest one
RECURSIVE SumOfTotals(_)
SumOfTotals(log) ==
  IF Len(log) = 0 THEN 0
  ELSE log[Len(log)].total + SumOfTotals(SubSeq(log, 1, Len(log) - 1))

\* C10: totalRevenue is the sum of the totals of the logged transactions,
\* totalOrders their number, and averageOrder 0 for an empty log and
\* totalRevenue divided by the number of transactions otherwise.
RevenueMetricsCorrect ==
  LET n == Len(allTransactions)
      avg == salesMetrics.averageOrder
  IN /\ salesMetrics.totalRevenue = SumOfTotals(allTransactions)
     /\ salesMetrics.totalOrders = n
     /\ avg.den # 0
     /\ n = 0 => avg.num = 0
     /\ n > 0 => avg.num * n = SumOfTotals(allTransactions) * avg.den

\* two sales with different totals are logged
RevenueWitness ==
  /\ Len(allTransactions) = 2
  /\ allTransactions[1].total # allTransactions[2].total
  /\ salesMetrics.totalRevenue > allTransactions[1].total

\* the lines of a cart that name the given item
LinesOf(t, id) == {k \in 1..Len(t.items) : t.items[k].id = id}

\* the customers a transaction refers to
CustomersOf(t) ==
  {i \in 1..Len(customers) :
     t.customerId # NoCustomer /\ customers[i].id = t.customerId}

\* C11: a commit with an unmatched reference is not rejected: the
\* transaction is put in the log, an inventory item no line names is left as
\* it was, an absent or unmatched customerId changes no customer, and the
\* items and the customer that do match get their deduction and their credit.
UnmatchedReferencesSkipped ==
  [][IsCommitStep =>
       /\ allTransactions' = <<Committed>> \o allTransactions
       /\ Len(inventory') = Len(inventory)
       /\ \A i \in 1..Len(inventory) :
            IF LinesOf(Committed, inventory[i].id) = {}
            THEN inventory'[i] = inventory[i]
            ELSE \E k \in LinesOf(Committed, inventory[i].id) :
                   StockAt(inventory'[i], Committed.branch) =
                     Max(0, StockAt(inventory[i], Committed.branch)
                              - Committed.items[k].quantity)
       /\ Len(customers') = Len(customers)
       /\ CustomersOf(Committed) = {} => customers' = customers
       /\ \A i \in CustomersOf(Committed) :
            customers'[i].totalOrders = customers[i].totalOrders + 1]_vars

\* the newest sale named an item the inventory does not have; its known
\* items were deducted and its customer was credited
UnmatchedItemWitness ==
  /\ Len(allTransactions) > 0
  /\ \E k \in 1..Len(allTransactions[1].items) :
       FindIndex(inventory, allTransactions[1].items[k].id) = 0
  /\ \E i \in 1..Len(inventory) :
       /\ FindIndex(allTransactions[1].items, inventory[i].id) # 0
       /\ inventory[i].updatedAt = "sold"
       /\ inventory[i].stock[NorthBranch] = 0
  /\ \E i \in 1..Len(customers) :
       /\ customers[i].id = allTransactions[1].customerId
       /\ customers[i].totalOrders > 0

(***************************************************************************)
(* Analytics: low-stock alerts.                                            *)
(***************************************************************************)
\* Math.min(...values); Math.min() of no values is Infinity
MinOf(s) ==
  IF Len(s) = 0 THEN "Infinity"
  ELSE CHOOSE v \in Range(s) : \A w \in Range(s) : v <= w

\* faulty variant: a branch exactly at the threshold does not count
IsLowAt_Strict(item, branch) == StockAt(item, branch) < item.lowStockThreshold

IsLowAt(item, branch) == StockAt(item, branch) <= item.lowStockThreshold

stockAlerts(inv, names) ==
  LET low == SelectSeq(inv, LAMBDA item :
                              \E j \in 1..Len(names) : IsLowAt(item, names[j]))
  IN [i \in 1..Len(low) |->
        [id |-> low[i].id,
         branches |-> SelectSeq(names, LAMBDA b : IsLowAt(low[i], b)),
         lowestStock |-> MinOf([j \in 1..Len(names) |-> StockAt(low[i], names[j])]),
         type |-> "stock"]]

lowStockAlerts == stockAlerts(inventory, branchNames)

\* C12: an item is in the low-stock alerts exactly when some active branch
\* holds (0 without a stock entry) at most lowStockThreshold units of it;
\* its alert lists exactly the active branches at or below the threshold,
\* and lowestStock is the least on-hand quantity over the active branches.
OnHand(item, b) == IF b \in DOMAIN item.stock THEN item.stock[b] ELSE 0

LowStockAlertsCorrect ==
  LET active == {branches[k].name : k \in {k \in 1..Len(branches) : branches[k].active}}
  IN /\ \A i \in 1..Len(inventory) :
          (\E a \in 1..Len(lowStockAlerts) : lowStockAlerts[a].id = inventory[i].id)
            <=> (\E b \in active :
                   OnHand(inventory[i], b) <= inventory[i].lowStockThreshold)
     /\ \A a \in 1..Len(lowStockAlerts) :
          \E i \in 1..Len(inventory) :
            /\ inventory[i].id = lowStockAlerts[a].id
            /\ Range(lowStockAlerts[a].branches) =
                 {b \in active :
                    OnHand(inventory[i], b) <= inventory[i].lowStockThreshold}
            /\ \E b \in active : lowStockAlerts[a].lowestStock = OnHand(inventory[i], b)
            /\ \A b \in active : lowStockAlerts[a].lowestStock <= OnHand(inventory[i], b)

\* an item is exactly at its threshold at one active branch, which its
\* alert lists, and above it at the other, which the alert leaves out
LowStockWitness ==
  /\ Len(branchNames) = 2
  /\ \E a \in 1..Len(lowStockAlerts), i \in 1..Len(inventory) :
       /\ inventory[i].id = lowStockAlerts[a].id
       /\ Len(lowStockAlerts[a].branches) = 1
       /\ StockAt(inventory[i], lowStockAlerts[a].branches[1])
            = inventory[i].lowStockThreshold
       /\ lowStockAlerts[a].lowestStock = inventory[i].lowStockThreshold
       /\ \E b \in Range(branchNames) :
            StockAt(inventory[i], b) > inventory[i].lowStockThreshold

(***************************************************************************)
(* Analytics: expiration alerts.                                           *)
(***************************************************************************)
Times == 0..MaxNow

\* Math.ceil(a / b) for b > 0
CeilDiv(a, b) == -((-a) \div b)

\* faulty variant: the quotient is truncated downwards
daysUntilExpiration_Floor(date, now) == (date - now) \div DayUnits

daysUntilExpiration(date, now) == CeilDiv(date - now, DayUnits)

IsExpiring(date, now) ==
  /\ daysUntilExpiration(date, now) <= AlertWindowDays
  /\ daysUntilExpiration(date, now) > 0

\* the alerts one item pushes, branch by branch
RECURSIVE ItemExpAlerts(_, _, _)
ItemExpAlerts(item, names, now) ==
  IF names = <<>> THEN <<>>
  ELSE LET branch == Head(names)
           expiringItems ==
             IF branch \in DOMAIN item.expirationDates
             THEN SelectSeq(item.expirationDates[branch],
                            LAMBDA date : IsExpiring(date, now))
             ELSE <<>>
           pushed ==
             IF Len(expiringItems) > 0
             THEN <<[id |-> <<item.id, branch>>,
                     branch |-> branch,
                     daysLeft |-> MinOf([k \in 1..Len(expiringItems) |->
                                   daysUntilExpiration(expiringItems[k], now)]),
                     type |-> "expiration"]>>
             ELSE <<>>
       IN pushed \o ItemExpAlerts(item, Tail(names), now)

RECURSIVE expAlerts(_, _, _)
expAlerts(inv, names, now) ==
  IF inv = <<>> THEN <<>>
  ELSE expAlerts(SubSeq(inv, 1, Len(inv) - 1), names, now)
         \o ItemExpAlerts(inv[Len(inv)], names, now)

expirationAlerts(now) == expAlerts(inventory, branchNames, now)

BatchesOf(item, b) ==
  IF b \in DOMAIN item.expirationDates
  THEN Range(item.expirationDates[b])
  ELSE {}

\* whole days until expiration, partial days counting as a whole one
DaysLeft(date, now) == (date - now + DayUnits - 1) \div DayUnits

\* the days until expiration, within the window, of the batches of an item
\* at a branch
InWindow(item, b, now) ==
  {d \in {DaysLeft(date, now) : date \in BatchesOf(item, b)} : 0 < d /\ d <= 20}

\* C13: an (item, active branch) pair is in the expiration alerts exactly
\* when one of its batches has 0 < d <= 20 days until expiration, d being
\* the ceiling of (expiration - now) / one day; daysLeft is the least such d
\* among the batches inside the window.
ExpirationAlertsCorrect ==
  \A now \in Times : \A alerts \in {expirationAlerts(now)} :
    LET active == {branches[k].name :
                     k \in {k \in 1..Len(branches) : branches[k].active}}
    IN /\ \A i \in 1..Len(inventory), b \in active :
            (\E a \in 1..Len(alerts) : alerts[a].id = <<inventory[i].id, b>>)
              <=> InWindow(inventory[i], b, now) # {}
       /\ \A a \in 1..Len(alerts) :
            \E i \in 1..Len(inventory) :
              /\ alerts[a].id = <<inventory[i].id, alerts[a].branch>>
              /\ alerts[a].branch \in active
              /\ alerts[a].daysLeft \in InWindow(inventory[i], alerts[a].branch, now)
              /\ \A d \in InWindow(inventory[i], alerts[a].branch, now) :
                   alerts[a].daysLeft <= d

\* at some instant a batch 10 days from expiration is alerted with
\* daysLeft = 10 while the older batch of the same item and branch has
\* expired and the batch at the other branch is not alerted
ExpirationWitness ==
  /\ Len(branchNames) = 2
  /\ \E now \in Times :
       /\ Len(expirationAlerts(now)) = 1
       /\ expirationAlerts(now)[1].daysLeft = 10
       /\ \E i \in 1..Len(inventory) :
            /\ expirationAlerts(now)[1].id = <<inventory[i].id, MainBranch>>
            /\ \E date \in BatchesOf(inventory[i], MainBranch) : date < now
            /\ BatchesOf(inventory[i], NorthBranch) # {}

\* C14: a role whose allowed modules do not include the finance module has
\* canViewFinancials = FALSE.
FinanceCapabilityConsistent ==
  /\ "finance" \notin allowedModules => ~canViewFinancials
  /\ \A r \in UserRole :
       "finance" \notin userRoles[r] => ~canViewFinancialsRole(r)

\* a role without the finance module was refused the finance module
NoFinanceWitness ==
  /\ "finance" \notin allowedModules
  /\ ~canViewFinancials
  /\ request = "finance"
  /\ alertMsg = currentUser.role

\* sum of the values of a function with a finite domain
RECURSIVE SumFn(_)
SumFn(f) ==
  IF DOMAIN f = {} THEN 0
  ELSE LET x == CHOOSE x \in DOMAIN f : TRUE
       IN f[x] + SumFn([y \in (DOMAIN f) \ {x} |-> f[y]])

\* positions of the active branches in the branch list
ActivePositions == {k \in 1..Len(branches) : branches[k].active}

\* on-hand units of an item at the branch listed at position k
UnitsAt(i, k) ==
  IF branches[k].name \in DOMAIN inventory[i].stock
  THEN inventory[i].stock[branches[k].name]
  ELSE 0

\* sum over items of (units on hand at the active branches x cost price)
ExpectedInventoryValue ==
  SumFn([p \in (1..Len(inventory)) \X ActivePositions |->
           UnitsAt(p[1], p[2]) * inventory[p[1]].costPrice])

\* sum over items of (units on hand at the active branches x unit weight)
ExpectedInventoryWeight ==
  SumFn([p \in (1..Len(inventory)) \X ActivePositions |->
           UnitsAt(p[1], p[2]) * inventory[p[1]].weight])

\* C15 as stated: whatever isAdmin is, the inventory valuation is the sum
\* over items of (on-hand units over the active branches x cost price) and
\* the total inventory weight the sum of (on-hand units x unit weight).
InventoryTotalsForEveryRole ==
  /\ salesMetrics.inventoryValue = ExpectedInventoryValue
  /\ salesMetrics.totalInventoryWeight = ExpectedInventoryWeight

\* C15 as amended: the valuation is that sum when isAdmin is true and 0
\* when it is false; the total inventory weight is its sum whatever isAdmin
\* is.
InventoryTotalsCorrect ==
  /\ salesMetrics.inventoryValue =
       IF isAdmin THEN ExpectedInventoryValue ELSE 0
  /\ salesMetrics.totalInventoryWeight = ExpectedInventoryWeight
  /\ \A admin \in BOOLEAN :
       LET m == computeMetrics(allTransactions, inventory, branchNames, admin)
       IN /\ m.inventoryValue = IF admin THEN ExpectedInventoryValue ELSE 0
          /\ m.totalInventoryWeight = ExpectedInventoryWeight

\* a non-admin looks at an inventory with stock at an active and at an
\* inactive branch
InventoryTotalsWitness ==
  /\ ~isAdmin
  /\ ExpectedInventoryValue > 0
  /\ salesMetrics.totalInventoryWeight > 0
  /\ \E k \in 1..Len(branches), i \in 1..Len(inventory) :
       ~branches[k].active /\ UnitsAt(i, k) > 0

\* the line items of the log, as (transaction, line) positions
LoggedLines ==
  UNION {{<<t, l>> : l \in 1..Len(allTransactions[t].items)} :
           t \in 1..Len(allTransactions)}

\* cost price of the inventory item a line names, 0 when there is none
CostPriceOf(id) ==
  IF \E i \in 1..Len(inventory) : inventory[i].id = id
  THEN inventory[CHOOSE i \in 1..Len(inventory) : inventory[i].id = id].costPrice
  ELSE 0

ExpectedCOGS ==
  SumFn([p \in LoggedLines |->
           CostPriceOf(allTransactions[p[1]].items[p[2]].id)
             * allTransactions[p[1]].items[p[2]].quantity])

\* C16: under Owner/Admin, totalCOGS is the sum over the logged
\* transactions and their line items of (cost price of the inventory item
\* with the line's id x quantity sold), a line without a matching item
\* counting 0, and grossProfit is totalRevenue - totalCOGS.
AdminCostsCorrect ==
  isAdmin =>
    /\ salesMetrics.totalCOGS = ExpectedCOGS
    /\ salesMetrics.grossProfit = SumOfTotals(allTransactions) - ExpectedCOGS

\* the admin looks at a log with a sale of several units of a known item
\* and one unit of an unknown item
AdminCostsWitness ==
  /\ isAdmin
  /\ Len(allTransactions) = 2
  /\ salesMetrics.totalCOGS > 0
  /\ salesMetrics.grossProfit # salesMetrics.totalRevenue
  /\ \E p \in LoggedLines :
       /\ CostPriceOf(allTransactions[p[1]].items[p[2]].id) > 0
       /\ allTransactions[p[1]].items[p[2]].quantity > 1
  /\ \E p \in LoggedLines :
       \A i \in 1..Len(inventory) :
         inventory[i].id # allTransactions[p[1]].items[p[2]].id

(***************************************************************************)
(* Analytics: branchAnalytics.                                             *)
(***************************************************************************)
\* today.setHours(0, 0, 0, 0): local midnight of the day of the instant
StartOfDay(now) == now - (now % DayUnits)

\* faulty variant: a sale made at midnight sharp is not of today
IsToday_AfterMidnight(t, today) == t.timestamp > today

IsToday(t, today) == t.timestamp >= today

\* faulty variant: the sales are not filtered by branch
branchStats_Unfiltered(transactions, inv, branch, now) ==
  LET branchTransactions == transactions
      branchRevenue == TotalRevenue(branchTransactions)
      branchOrders == Len(branchTransactions)
      today == StartOfDay(now)
      todayTransactions == SelectSeq(branchTransactions,
                                     LAMBDA t : IsToday(t, today))
      todayRevenue == TotalRevenue(todayTransactions)
      branchInventoryWeight ==
        SeqSum([i \in 1..Len(inv) |-> StockAt(inv[i], branch) * inv[i].weight])
  IN [totalRevenue |-> branchRevenue,
      totalOrders |-> branchOrders,
      todayRevenue |-> todayRevenue,
      todayOrders |-> Len(todayTransactions),
      averageOrder |-> IF branchOrders > 0
                       THEN Quotient(branchRevenue, branchOrders)
                       ELSE Quotient(0, 1),
      inventoryWeight |-> branchInventoryWeight]

branchStats(transactions, inv, branch, now) ==
  LET branchTransactions == SelectSeq(transactions, LAMBDA t : t.branch = branch)
      branchRevenue == TotalRevenue(branchTransactions)
      branchOrders == Len(branchTransactions)
      today == StartOfDay(now)
      todayTransactions == SelectSeq(branchTransactions,
                                     LAMBDA t : IsToday(t, today))
      todayRevenue == TotalRevenue(todayTransactions)
      branchInventoryWeight ==
        SeqSum([i \in 1..Len(inv) |-> StockAt(inv[i], branch) * inv[i].weight])
  IN [totalRevenue |-> branchRevenue,
      totalOrders |-> branchOrders,
      todayRevenue |-> todayRevenue,
      todayOrders |-> Len(todayTransactions),
      averageOrder |-> IF branchOrders > 0
                       THEN Quotient(branchRevenue, branchOrders)
                       ELSE Quotient(0, 1),
      inventoryWeight |-> branchInventoryWeight]

computeBranchAnalytics(transactions, names, inv, now) ==
  [branch \in Range(names) |-> branchStats(transactions, inv, branch, now)]

branchAnalytics(now) ==
  computeBranchAnalytics(allTransactions, branchNames, inventory, now)

\* positions in the log of the sales of a branch, and of those made at or
\* after the given instant
SalesAt(b) == {k \in 1..Len(allTransactions) : allTransactions[k].branch = b}
SalesSince(b, instant) ==
  {k \in SalesAt(b) : allTransactions[k].timestamp >= instant}

TotalOf(positions) == SumFn([k \in positions |-> allTransactions[k].total])

\* local midnight of the day of an instant: the latest whole day at or
\* before it
Midnight(now) ==
  CHOOSE m \in 0..now : m % DayUnits = 0 /\ m <= now /\ now < m + DayUnits

\* C17: for every active branch name b the analytics entry of b has the
\* number and the summed totals of the logged sales of b, their quotient
\* as averageOrder (0 without sales), the number and summed totals of the
\* sales of b stamped at or after local midnight of the current day, and
\* the summed (on-hand units at b x unit weight) of the items.
BranchAnalyticsCorrect ==
  \A now \in Times : \A analytics \in {branchAnalytics(now)} :
    /\ DOMAIN analytics = {branches[k].name : k \in ActivePositions}
    /\ \A b \in DOMAIN analytics :
         LET e == analytics[b] IN
         /\ e.totalOrders = Cardinality(SalesAt(b))
         /\ e.totalRevenue = TotalOf(SalesAt(b))
         /\ e.averageOrder.den # 0
         /\ SalesAt(b) = {} => e.averageOrder.num = 0
         /\ SalesAt(b) # {} =>
              e.averageOrder.num * Cardinality(SalesAt(b))
                = TotalOf(SalesAt(b)) * e.averageOrder.den
         /\ e.todayOrders = Cardinality(SalesSince(b, Midnight(now)))
         /\ e.todayRevenue = TotalOf(SalesSince(b, Midnight(now)))
         /\ e.inventoryWeight =
              SumFn([i \in 1..Len(inventory) |->
                       (IF b \in DOMAIN inventory[i].stock
                        THEN inventory[i].stock[b] ELSE 0) * inventory[i].weight])

\* at some instant a branch has one sale of today, made at midnight sharp,
\* and one of an earlier day, and holds stock
BranchAnalyticsWitness ==
  \E now \in Times : \E b \in Range(branchNames) :
    /\ branchAnalytics(now)[b].totalOrders = 2
    /\ branchAnalytics(now)[b].todayOrders = 1
    /\ branchAnalytics(now)[b].inventoryWeight > 0
    /\ \E k \in SalesAt(b) : allTransactions[k].timestamp = Midnight(now)

(***************************************************************************)
(* Navigation entries.                                                     *)
(***************************************************************************)
\* C18: whatever the role, the module ids the sidebar and the mobile menu
\* offer are exactly the allowed modules of the role: none that is not
\* allowed, and every allowed one.
NavEntriesAreAllowedModules ==
  /\ \A id \in NavEntries : id \in userRoles[currentUser.role]
  /\ \A id \in userRoles[currentUser.role] : id \in NavEntries

\* a role whose menu list holds items the role may not open, which the
\* rendering leaves out
FilteredMenuWitness ==
  /\ currentUser.role \in {Accountant, Viewer}
  /\ Range(menuItems) # NavEntries
  /\ "reports" \in NavEntries
  /\ "pos" \notin NavEntries

(***************************************************************************)
(* Rendering of the main area: renderContent.                              *)
(***************************************************************************)
\* faulty variant: the finance case mounts the module for every role
renderContent_Unguarded ==
  CASE activeModule = "dashboard" -> "Dashboard"
    [] activeModule = "pos" -> "POSModule"
    [] activeModule = "reports" -> "ReportsModule"
    [] activeModule = "inventory" -> "InventoryModule"
    [] activeModule = "crm" -> "CRMModule"
    [] activeModule = "sales" -> "SalesModule"
    [] activeModule = "finance" -> "FinanceModule"
    [] activeModule = "settings" -> "SettingsModule"
    [] OTHER -> "Dashboard"

\* name of the view the switch on activeModule returns
renderContent ==
  CASE activeModule = "dashboard" -> "Dashboard"
    [] activeModule = "pos" -> "POSModule"
    [] activeModule = "reports" -> "ReportsModule"
    [] activeModule = "inventory" -> "InventoryModule"
    [] activeModule = "crm" -> "CRMModule"
    [] activeModule = "sales" -> "SalesModule"
    [] activeModule = "finance" ->
         IF ~canViewFinancials THEN "AccessDenied" ELSE "FinanceModule"
    [] activeModule = "settings" -> "SettingsModule"
    [] OTHER -> "Dashboard"

\* C20: the finance view is on screen only for a role that is the
\* administrator or the accountant; with finance active under any other
\* role the access-denied panel is on screen instead, however finance
\* became the active module.
FinanceViewGuarded ==
  /\ renderContent = "FinanceModule"
       => currentUser.role \in {Admin, Accountant}
  /\ (activeModule = "finance" /\ currentUser.role \notin {Admin, Accountant})
       => renderContent = "AccessDenied"

\* a sales representative has made finance the active module (by the
\* dashboard card, which skips the role check) and sees the denial panel
FinanceDeniedWitness ==
  /\ activeModule = "finance"
  /\ currentUser.role = Worker
  /\ renderContent = "AccessDenied"

(***************************************************************************)
(* The useElectron hook: saveFile, printReceipt, getAppInfo.               *)
(***************************************************************************)
\* window.electronAPI as the native shell exposes it
NativeAPI == [exposed |-> TRUE, isElectron |-> TRUE]
ElectronAPIs == {NoAPI, NativeAPI}

DataInputs == {"csv", "json"}
FilenameInputs == {"ventas.csv", "respaldo.json"}
ReceiptInputs == {"r1", "r2"}

\* what the bridge may answer
SaveFileReplies ==
  {[success |-> TRUE, path |-> "/home/ventas"],
   [success |-> FALSE, error |-> "EACCES"]}
PrintReceiptReplies ==
  {[success |-> TRUE], [success |-> FALSE, error |-> "no printer"]}
AppInfoReplies ==
  {[version |-> "1.0.0", platform |-> "linux", arch |-> "x64",
    electronVersion |-> "28", nodeVersion |-> "18"],
   [version |-> "1.1.0", platform |-> "win32", arch |-> "x64",
    electronVersion |-> "28", nodeVersion |-> "18"]}

\* faulty variant: the hook takes every window for the native shell
isElectron_Always == TRUE

\* window.electronAPI?.isElectron (window itself is always defined where
\* the callbacks run)
isElectron == electronAPI.exposed /\ electronAPI.isElectron

CallBridge(method, args, reply) ==
  /\ bridgeCalls' = Append(bridgeCalls,
                           [method |-> method, args |-> args, reply |-> reply])
  /\ hookResult' = reply
  /\ UNCHANGED webActions

saveFile(data, filename) ==
  /\ hookCalls < MaxCalls
  /\ hookCalls' = hookCalls + 1
  /\ hookCall' = [fn |-> "saveFile", args |-> <<data, filename>>]
  /\ IF ~isElectron
     THEN /\ webActions' = Append(webActions,
                                  [kind |-> "download", data |-> data,
                                   filename |-> filename])
          /\ hookResult' = [success |-> TRUE]
          /\ UNCHANGED bridgeCalls
     ELSE \E reply \in SaveFileReplies :
            CallBridge("saveFile", <<data, filename>>, reply)
  /\ UNCHANGED <<electronAPI, navVars, dataVars, alertMsg, request>>

\* opened: whether window.open returned a window (a blocked pop-up gives
\* null, and nothing is written or printed)
printReceipt(receiptData, opened) ==
  /\ hookCalls < MaxCalls
  /\ hookCalls' = hookCalls + 1
  /\ hookCall' = [fn |-> "printReceipt", args |-> <<receiptData>>]
  /\ IF ~isElectron
     THEN /\ webActions' = Append(webActions,
                                  [kind |-> "print", opened |-> opened,
                                   receipt |-> receiptData])
          /\ hookResult' = [success |-> TRUE]
          /\ UNCHANGED bridgeCalls
     ELSE \E reply \in PrintReceiptReplies :
            CallBridge("printReceipt", <<receiptData>>, reply)
  /\ UNCHANGED <<electronAPI, navVars, dataVars, alertMsg, request>>

getAppInfo ==
  /\ hookCalls < MaxCalls
  /\ hookCalls' = hookCalls + 1
  /\ hookCall' = [fn |-> "getAppInfo", args |-> <<>>]
  /\ IF ~isElectron
     THEN /\ hookResult' = [version |-> "1.0.0", platform |-> "web",
                            arch |-> "unknown", electronVersion |-> "N/A",
                            nodeVersion |-> "N/A"]
          /\ UNCHANGED <<bridgeCalls, webActions>>
     ELSE \E reply \in AppInfoReplies : CallBridge("getAppInfo", <<>>, reply)
  /\ UNCHANGED <<electronAPI, navVars, dataVars, alertMsg, request>>

SaveFile == \E data \in DataInputs, filename \in FilenameInputs :
              saveFile(data, filename)
PrintReceipt == \E receiptData \in ReceiptInputs, opened \in BOOLEAN :
                  printReceipt(receiptData, opened)
GetAppInfo == getAppInfo

\* the application opened in a browser or in the native shell
BridgeInit ==
  /\ currentUser = SarahUser
  /\ currentBranch = MainBranch
  /\ activeModule = "dashboard"
  /\ isMobileMenuOpen = FALSE
  /\ systemSettings = [companyName |-> "MascotaCare ERP Nicaragua"]
  /\ branches = <<Branch("branch1", MainBranch, TRUE)>>
  /\ inventory = <<>>
  /\ allTransactions = <<>>
  /\ customers = <<>>
  /\ alertMsg = NoAlert
  /\ request = ""
  /\ electronAPI \in ElectronAPIs
  /\ bridgeCalls = <<>>
  /\ webActions = <<>>
  /\ hookCall = NoCall
  /\ hookResult = NoResult
  /\ hookCalls = 0

BridgeNext == SaveFile \/ PrintReceipt \/ GetAppInfo

BridgeSpec == BridgeInit /\ [][BridgeNext]_vars

IsHookStep == hookCalls' = hookCalls + 1

\* C19: without window.electronAPI a call of saveFile, printReceipt or
\* getAppInfo leaves the bridge uncalled; saveFile and printReceipt carry
\* out one browser fallback (a download, a print window) and return
\* success, getAppInfo returns the placeholder values.  With the bridge a
\* call makes exactly one bridge call, of the same method with the same
\* arguments, does no browser fallback, and returns the bridge's answer.
BridgeContract ==
  [][IsHookStep =>
       /\ electronAPI = [exposed |-> FALSE] =>
            /\ bridgeCalls' = bridgeCalls
            /\ hookCall'.fn = "saveFile" =>
                 /\ hookResult' = [success |-> TRUE]
                 /\ Len(webActions') = Len(webActions) + 1
                 /\ webActions'[Len(webActions')].kind = "download"
            /\ hookCall'.fn = "printReceipt" =>
                 /\ hookResult' = [success |-> TRUE]
                 /\ Len(webActions') = Len(webActions) + 1
                 /\ webActions'[Len(webActions')].kind = "print"
            /\ hookCall'.fn = "getAppInfo" =>
                 /\ hookResult'.version = "1.0.0"
                 /\ hookResult'.platform = "web"
                 /\ hookResult'.arch = "unknown"
                 /\ hookResult'.electronVersion = "N/A"
                 /\ hookResult'.nodeVersion = "N/A"
                 /\ webActions' = webActions
       /\ electronAPI # [exposed |-> FALSE] =>
            /\ webActions' = webActions
            /\ Len(bridgeCalls') = Len(bridgeCalls) + 1
            /\ \A k \in 1..Len(bridgeCalls) : bridgeCalls'[k] = bridgeCalls[k]
            /\ bridgeCalls'[Len(bridgeCalls')].method = hookCall'.fn
            /\ bridgeCalls'[Len(bridgeCalls')].args = hookCall'.args
            /\ hookResult' = bridgeCalls'[Len(bridgeCalls')].reply
  ]_vars

\* in a browser, a receipt was printed with the pop-up blocked after a
\* file was saved: two fallbacks, success returned, no bridge call
FallbackWitness ==
  /\ electronAPI = NoAPI
  /\ hookCall.fn = "printReceipt"
  /\ hookResult = [success |-> TRUE]
  /\ Len(webActions) = 2
  /\ webActions[1].kind = "download"
  /\ ~webActions[2].opened
  /\ bridgeCalls = <<>>

(***************************************************************************)
(* Role switching.                                                         *)
(***************************************************************************)
\* only switchRole assigns currentUser, and it always changes the role
IsSwitchStep == currentUser' # currentUser

\* C21: a role switch leaves dashboard as the active module and makes the
\* role Sales Representative if it was Owner/Admin and Owner/Admin if it
\* was anything else; hence the role is always one of these two, and right
\* after a switch the active module is one the new role is allowed.
SwitchRoleContract ==
  /\ [](currentUser.role \in {"Owner/Admin", "Sales Representative"})
  /\ [][IsSwitchStep =>
          /\ activeModule' = "dashboard"
          /\ currentUser.role = "Owner/Admin"
               => currentUser'.role = "Sales Representative"
          /\ currentUser.role # "Owner/Admin"
               => currentUser'.role = "Owner/Admin"
          /\ activeModule' \in userRoles[currentUser'.role]
     ]_vars

\* the sales representative is on the dashboard of a populated system, right
\* where a switch from the administrator leaves them
SwitchedWitness ==
  /\ currentUser = MiguelUser
  /\ activeModule = "dashboard"
  /\ ~EmptyDashboard

(***************************************************************************)
(* Branch updates and the selected branch.                                 *)
(***************************************************************************)
\* only handleBranchUpdate assigns branches
IsBranchUpdateStep == branches' # branches

ActiveNamesOf(bs) == {bs[i].name : i \in {k \in 1..Len(bs) : bs[k].active}}

FirstActiveNameOf(bs) ==
  bs[CHOOSE i \in 1..Len(bs) :
       bs[i].active /\ \A j \in 1..Len(bs) : bs[j].active => i <= j].name

\* C22 (as stated): after a branch update the selected branch is the name
\* of an active branch of the new list, the first active one if the
\* previous selection is missing or inactive there and the previous one
\* otherwise, also when the new list has no active branch.
CurrentBranchAlwaysActive ==
  [][IsBranchUpdateStep =>
       /\ currentBranch' \in ActiveNamesOf(branches')
       /\ IF currentBranch \in ActiveNamesOf(branches')
          THEN currentBranch' = currentBranch
          ELSE currentBranch' = FirstActiveNameOf(branches')
  ]_vars

\* C22 (amended): after a branch update whose list has an active branch
\* the selected branch is the name of an active branch of the new list,
\* the first active one if the previous selection is missing or inactive
\* there and the previous one otherwise; after an update whose list has no
\* active branch the selection is what it was.
CurrentBranchFollowsUpdate ==
  [][IsBranchUpdateStep =>
       IF ActiveNamesOf(branches') = {}
       THEN currentBranch' = currentBranch
       ELSE /\ currentBranch' \in ActiveNamesOf(branches')
            /\ IF currentBranch \in ActiveNamesOf(branches')
               THEN currentBranch' = currentBranch
               ELSE currentBranch' = FirstActiveNameOf(branches')
  ]_vars

\* the first branch of the list is inactive and the selection is the
\* second, active one: where an update that deactivates the selected
\* branch leaves the selection
ReselectedWitness ==
  /\ Len(branches) = 2
  /\ ~branches[1].active
  /\ branches[2].active
  /\ currentBranch = branches[2].name
  /\ currentBranch # MainBranch

(***************************************************************************)
(* Per-branch rollups against the global metrics.                          *)
(***************************************************************************)
\* the branch totals do not depend on the instant of the derivation
RollupInstants == {0, MaxNow}

BranchRevenueSum(analytics) ==
  SumFn([b \in DOMAIN analytics |-> analytics[b].totalRevenue])
BranchOrdersSum(analytics) ==
  SumFn([b \in DOMAIN analytics |-> analytics[b].totalOrders])

\* positions in the log of the sales whose branch is not an active branch
SalesElsewhere ==
  {k \in 1..Len(allTransactions) :
     allTransactions[k].branch \notin ActiveNamesOf(branches)}

\* C23 (as stated): the per-branch totalRevenue of the branch analytics
\* add up to the global totalRevenue and the per-branch totalOrders to the
\* global totalOrders, in every state.
BranchSumsEqualGlobal ==
  \A now \in RollupInstants : \A analytics \in {branchAnalytics(now)} :
    /\ BranchRevenueSum(analytics) = salesMetrics.totalRevenue
    /\ BranchOrdersSum(analytics) = salesMetrics.totalOrders

\* C23 (amended): the per-branch totalRevenue and totalOrders add up to
\* the global ones less the totals and the number of the logged sales
\* whose branch is not an active branch; they add up to the global ones
\* exactly when every logged sale is of an active branch.
BranchSumsCoverActiveSales ==
  \A now \in RollupInstants : \A analytics \in {branchAnalytics(now)} :
    /\ BranchRevenueSum(analytics) + TotalOf(SalesElsewhere)
         = salesMetrics.totalRevenue
    /\ BranchOrdersSum(analytics) + Cardinality(SalesElsewhere)
         = salesMetrics.totalOrders
    /\ SalesElsewhere = {} <=>
         BranchOrdersSum(analytics) = salesMetrics.totalOrders

\* a sale was logged at each of two branches and one of them is no longer
\* active: its sale counts in the global metrics only
DeactivatedBranchSalesWitness ==
  /\ Len(branches) = 2
  /\ ~branches[1].active
  /\ branches[2].active
  /\ \E k \in 1..Len(allTransactions) :
       allTransactions[k].branch = branches[1].name
  /\ \E k \in 1..Len(allTransactions) :
       allTransactions[k].branch = branches[2].name
  /\ BranchOrdersSum(branchAnalytics(0)) = 1
  /\ salesMetrics.totalOrders = 2

(***************************************************************************)
(* Two commits in either order.                                            *)
(***************************************************************************)
\* the inventory a commit of the transaction makes of an inventory
InventoryAfter(inv, transaction) ==
  [i \in 1..Len(inv) |-> DeductStock(inv[i], transaction)]

\* what a commit takes off an item at a branch, the floor at 0 included
TakenOff(item, itemAfter, b) == OnHand(item, b) - OnHand(itemAfter, b)

\* C24: a commit of t followed by a commit of u leaves every item with
\* the stock and the stock weight, branch by branch, that a commit of u
\* followed by a commit of t leaves it with; and the on-hand quantity left
\* is the starting one less what each of the two commits takes off on its
\* own, floored at 0, so that neither deduction is lost.  Checked on every
\* commit step, for every transaction u that may follow.
CommitsCommute ==
  [][IsCommitStep =>
       \A u \in TxInputs :
         LET tThenU == InventoryAfter(inventory', u)
             onlyU == InventoryAfter(inventory, u)
             uThenT == InventoryAfter(onlyU, Committed)
         IN \A i \in 1..Len(inventory) :
              /\ tThenU[i].stock = uThenT[i].stock
              /\ tThenU[i].stockWeight = uThenT[i].stockWeight
              /\ \A b \in BranchNameSet :
                   OnHand(tThenU[i], b) =
                     Max(0, OnHand(inventory[i], b)
                              - TakenOff(inventory[i], inventory'[i], b)
                              - TakenOff(inventory[i], onlyU[i], b))
  ]_vars

\* two different sales of the same item at the same branch are logged and
\* the item, stocked before them, has nothing left at that branch
TwoSalesWitness ==
  /\ Len(allTransactions) = 2
  /\ allTransactions[1] # allTransactions[2]
  /\ allTransactions[1].branch = allTransactions[2].branch
  /\ \E i \in 1..Len(inventory) :
       /\ \A t \in 1..2 : \E l \in 1..Len(allTransactions[t].items) :
            allTransactions[t].items[l].id = inventory[i].id
       /\ inventory[i].updatedAt = "sold"
       /\ OnHand(inventory[i], allTransactions[1].branch) = 0

(***************************************************************************)
(* What a commit leaves alone.                                             *)
(***************************************************************************)
\* the entry of a per-branch map, or "absent" when the branch has none
EntryOf(map, b) == IF b \in DOMAIN map THEN <<map[b]>> ELSE <<>>

\* C25: a commit at branch B leaves every item's stock and stockWeight at
\* every branch other than B as they were (absent entries stay absent),
\* leaves every item that no line of the transaction names as it was in
\* every field, keeps the items in their places, and leaves the branch
\* list, the selected branch, the user and role, the active module and the
\* system settings as they were.
CommitFrame ==
  [][IsCommitStep =>
       /\ Len(inventory') = Len(inventory)
       /\ \A i \in 1..Len(inventory) :
            /\ inventory'[i].id = inventory[i].id
            /\ \A b \in BranchNameSet \ {Committed.branch} :
                 /\ EntryOf(inventory'[i].stock, b)
                      = EntryOf(inventory[i].stock, b)
                 /\ EntryOf(inventory'[i].stockWeight, b)
                      = EntryOf(inventory[i].stockWeight, b)
            /\ (\A l \in 1..Len(Committed.items) :
                  Committed.items[l].id # inventory[i].id)
                 => inventory'[i] = inventory[i]
       /\ branches' = branches
       /\ currentBranch' = currentBranch
       /\ currentUser' = currentUser
       /\ activeModule' = activeModule
       /\ systemSettings' = systemSettings
  ]_vars

\* the last sale, at one branch, took an item down to nothing there while
\* the item still has its stock and stock weight at another branch
OtherBranchKeptWitness ==
  /\ Len(allTransactions) > 0
  /\ \E i \in 1..Len(inventory) : \E b \in BranchNameSet :
       /\ b # allTransactions[1].branch
       /\ inventory[i].updatedAt = "sold"
       /\ OnHand(inventory[i], allTransactions[1].branch) = 0
       /\ OnHand(inventory[i], b) > 0
       /\ b \in DOMAIN inventory[i].stockWeight
       /\ inventory[i].stockWeight[b] = OnHand(inventory[i], b) * inventory[i].weight

=============================================================================
